---------------------------- MODULE Spec2Model ----------------------------
(***************************************************************************)
(* Model of the vector-store backed chat service                           *)
(* (app/services/chat_service.py) and of its HTTP endpoint layer            *)
(* (app/api/v1/endpoints/chat.py).                                          *)
(*                                                                         *)
(* The "chats" and "documents" collections of the vector store are the     *)
(* durable state.  Every endpoint is one action: it draws its inputs and   *)
(* the outcome of each external call (store, embedding, generation) from   *)
(* small sets, runs the whole handler, and leaves the reply in resp.       *)
(***************************************************************************)
EXTENDS Integers, Sequences, FiniteSets, TLC

VARIABLES
    chats,       \* collection "chats": point id -> payload
    documents,   \* collection "documents": point id -> payload; it holds the
                 \* points add_document writes and the nodes of the query index
    now,         \* the clock read by datetime.utcnow()
    nextId,      \* the next value uuid4 returns
    requests,    \* requests that took effect since the service was constructed
    resp,        \* the last request and its reply
    sent,        \* history: the messages add_message has returned, in call order
    inflight,    \* per server process: the add_message call it is serving
    service      \* the ChatService object: its cached handles, how often each
                 \* was constructed, and the collections its client set up

vars ==
    <<chats, documents, now, nextId, requests, resp, sent, inflight, service>>

(***************************************************************************)
(* Bounds of the model.                                                    *)
(***************************************************************************)
MaxRequests == 3     \* requests that take effect in one run
MaxClock == 1        \* last instant of the clock
SeedChats == 99      \* chats already in the store when SpecPage starts
MaxCalls == 2        \* add_message calls that pass the lookup in SpecRace

(***************************************************************************)
(* Program constants.                                                      *)
(***************************************************************************)
ScrollLimit == 100   \* limit= of both scroll calls
TopK == 5            \* similarity_top_k of search_similar_documents

NoneVal == "None"    \* Python's None (Optional[str] fields)

\* Values of the inputs the endpoints are called with.
ChatInputs ==
    {[title |-> "t1", description |-> NoneVal],
     [title |-> "t2", description |-> "d1"]}
Contents == {<<"hello">>, <<"Error:", "typed", "by", "user">>}
Roles == {"user", "system"}
Queries == {"doc1", "doc2"}

(***************************************************************************)
(* datetime.isoformat / datetime.fromisoformat.  An instant is a number;   *)
(* its ISO form is a string.  fromisoformat raises ValueError on any other *)
(* string: BadTime stands for that exception.                              *)
(***************************************************************************)
isoformat(t) == "2025-01-01T00:00:0" \o ToString(t)

BadTime == 0 - 1

fromisoformat(s) ==
    IF \E t \in 0..MaxClock : isoformat(t) = s
    THEN CHOOSE t \in 0..MaxClock : isoformat(t) = s
    ELSE BadTime

\* str(uuid.uuid4()): the n-th uuid drawn, as the string callers see.
str_uuid(n) == "uuid-" \o ToString(n)

(***************************************************************************)
(* The vector store client.                                                *)
(***************************************************************************)
\* The ids of a collection in the order scroll walks them (ascending id).
SortedIds(S) ==
    [i \in 1..Cardinality(S) |->
        CHOOSE x \in S : Cardinality({y \in S : y < x}) = i - 1]

\* scroll with a page one point short of the limit.
scroll_short(collection, limit) ==
    LET ids == SortedIds(DOMAIN collection)
    IN  IF Len(ids) < limit THEN ids ELSE SubSeq(ids, 1, limit - 1)

\* qdrant_client.scroll(collection_name, limit): the first page of point ids.
scroll(collection, limit) ==
    LET ids == SortedIds(DOMAIN collection)
    IN  IF Len(ids) <= limit THEN ids ELSE SubSeq(ids, 1, limit)

\* qdrant_client.retrieve(collection_name, ids=[id]): the points found.
retrieve(collection, id) ==
    IF id \in DOMAIN collection THEN <<collection[id]>> ELSE << >>

\* qdrant_client.upsert(collection_name, points=[PointStruct(id, payload)]).
upsert(collection, id, payload) ==
    [p \in DOMAIN collection \cup {id} |->
        IF p = id THEN payload ELSE collection[p]]

\* qdrant_client.delete(collection_name, PointIdsList(points=[id])).
delete(collection, id) ==
    [p \in DOMAIN collection \ {id} |-> collection[p]]

(***************************************************************************)
(* The ChatService object and its lazy properties.  A handle slot holds 0  *)
(* (None) or the number of the object constructed for it: the n-th object  *)
(* constructed for a slot is n.  built counts the constructions of each    *)
(* slot; initialised holds the collections _init_collections has found or  *)
(* created.                                                                *)
(***************************************************************************)
Handles == {"qdrant_client", "vector_store", "embed_model", "llm", "index"}

Collections == {"documents", "chats"}

\* ChatService.__init__: every handle None.
NewService ==
    [handle |-> [h \in Handles |-> 0],
     built |-> [h \in Handles |-> 0],
     initialised |-> {}]

\* self._<h> = <constructor>(...): a new object in slot h.
construct(svc, h) ==
    [svc EXCEPT !.handle[h] = svc.built[h] + 1,
                !.built[h] = svc.built[h] + 1]

\* What the first access to the store client meets: everything works, the
\* QdrantClient constructor raises, or the store refuses both get_collection
\* and create_collection for "documents", or for "chats".
InitOutcomes == {"ok", "client", "documents", "chats"}

\* ChatService._init_collections: "documents" first, then "chats"; a
\* collection is found, or created when get_collection raises, and the
\* exception of a create_collection call is not caught.
init_collections(svc, init) ==
    IF init = "documents"
    THEN [svc |-> svc, exc |-> "Exception"]
    ELSE IF init = "chats"
    THEN [svc |-> [svc EXCEPT !.initialised = {"documents"}],
          exc |-> "Exception"]
    ELSE [svc |-> [svc EXCEPT !.initialised = Collections], exc |-> "none"]

\* ChatService.qdrant_client: the slot is assigned before _init_collections
\* runs, and the except clause only re-raises.
qdrant_client(svc, init) ==
    IF svc.handle["qdrant_client"] # 0
    THEN [svc |-> svc, exc |-> "none"]
    ELSE IF init = "client"
    THEN [svc |-> svc, exc |-> "Exception"]
    ELSE init_collections(construct(svc, "qdrant_client"), init)

\* ChatService.vector_store.
vector_store(svc, init) ==
    IF svc.handle["vector_store"] # 0
    THEN [svc |-> svc, exc |-> "none"]
    ELSE LET client == qdrant_client(svc, init)
         IN  IF client.exc # "none" THEN client
             ELSE [svc |-> construct(client.svc, "vector_store"),
                   exc |-> "none"]

\* A property that constructs a new embedding client on every access.
embed_model_uncached(svc) == construct(svc, "embed_model")

\* ChatService.embed_model.
embed_model(svc) ==
    IF svc.handle["embed_model"] # 0 THEN svc
    ELSE construct(svc, "embed_model")

\* ChatService.llm.
llm(svc) ==
    IF svc.handle["llm"] # 0 THEN svc ELSE construct(svc, "llm")

\* ChatService.index: llm and embed_model are read first, then the vector
\* store.
index(svc, init) ==
    IF svc.handle["index"] # 0
    THEN [svc |-> svc, exc |-> "none"]
    ELSE LET store == vector_store(embed_model(llm(svc)), init)
         IN  IF store.exc # "none" THEN store
             ELSE [svc |-> construct(store.svc, "index"), exc |-> "none"]

\* ChatService._refresh_index.
refresh_index(svc) == [svc EXCEPT !.handle["index"] = 0]


(***************************************************************************)
(* Chats and messages.                                                     *)
(***************************************************************************)
\* ChatRead built from a stored point (list_chats) .
ChatRead(id, payload) ==
    [id |-> id,
     title |-> payload.title,
     description |-> payload.description,
     created_at |-> fromisoformat(payload.created_at),
     updated_at |-> fromisoformat(payload.updated_at)]

\* MessageRead built from a stored message (get_chat_messages).
MessageRead(msg, chat_id) ==
    [id |-> msg.id,
     content |-> msg.content,
     role |-> msg.role,
     chat_id |-> chat_id,
     created_at |-> fromisoformat(msg.created_at)]

\* A payload whose updated_at is left at the epoch.
create_chat_payload_epoch(chat, t) ==
    [title |-> chat.title,
     description |-> chat.description,
     created_at |-> isoformat(t),
     updated_at |-> isoformat(0),
     messages |-> << >>]

\* The payload create_chat stores for a new chat.
create_chat_payload(chat, t) ==
    [title |-> chat.title,
     description |-> chat.description,
     created_at |-> isoformat(t),
     updated_at |-> isoformat(t),
     messages |-> << >>]

\* ChatService.create_chat: the store call either works or raises.
create_chat(coll, chat, chat_id, t, fail) ==
    IF fail = "upsert"
    THEN [exc |-> "Exception", chats |-> coll, result |-> << >>]
    ELSE [exc |-> "none",
          chats |-> upsert(coll, chat_id, create_chat_payload(chat, t)),
          result |-> <<[id |-> chat_id,
                        title |-> chat.title,
                        description |-> chat.description,
                        created_at |-> t,
                        updated_at |-> t]>>]

\* A listing that walks the whole collection.
list_chats_unbounded(coll) ==
    LET page == SortedIds(DOMAIN coll)
    IN  [i \in 1..Len(page) |-> ChatRead(page[i], coll[page[i]])]

\* ChatService.list_chats: one page of the "chats" collection.
list_chats(coll) ==
    LET page == scroll(coll, ScrollLimit)
    IN  [i \in 1..Len(page) |-> ChatRead(page[i], coll[page[i]])]

\* A reader that returns the stored messages newest first.
get_chat_messages_newest_first(coll, chat_id) ==
    LET response == retrieve(coll, chat_id)
    IN  IF response = << >>
        THEN << >>
        ELSE LET stored == response[1].messages
             IN  [i \in 1..Len(stored) |->
                    MessageRead(stored[Len(stored) + 1 - i], chat_id)]

\* ChatService.get_chat_messages.
get_chat_messages(coll, chat_id) ==
    LET response == retrieve(coll, chat_id)
    IN  IF response = << >>
        THEN << >>
        ELSE LET stored == response[1].messages
             IN  [i \in 1..Len(stored) |-> MessageRead(stored[i], chat_id)]

\* str(response) of the chat engine for a message.
generated_text(content) == <<"answer", "to">> \o content

\* f"Error: {str(e)}" for the exception raised inside the try block.
error_text(e) == <<"Error:", e>>

\* A handler that lets the exception through.
add_message_except_reraise(e) == e

\* The exception that leaves the try/except of add_message when e was raised
\* inside it: "except Exception" catches everything.
add_message_except(e) == "none"

\* A try block that builds the payload anew instead of copying the one read.
add_message_try_new_payload(coll, message, chat, messages, ai_id, t, fail) ==
    IF fail \in {"generation", "upsert"}
    THEN coll
    ELSE upsert(coll, message.chat_id,
                [title |-> chat.title,
                 description |-> NoneVal,
                 created_at |-> isoformat(t),
                 updated_at |-> isoformat(t),
                 messages |->
                    Append(messages,
                           [id |-> ai_id,
                            content |-> generated_text(message.content),
                            role |-> "assistant",
                            created_at |-> isoformat(t)])])

\* A try block that appends its two messages to the list the store holds at
\* the time of the write.
add_message_try_merge(coll, message, chat, messages, ai_id, t, fail) ==
    IF fail \in {"generation", "upsert"}
    THEN coll
    ELSE upsert(coll, message.chat_id,
                [chat EXCEPT !.messages =
                    coll[message.chat_id].messages
                    \o <<messages[Len(messages)],
                          [id |-> ai_id,
                           content |-> generated_text(message.content),
                           role |-> "assistant",
                           created_at |-> isoformat(t)]>>,
                 !.updated_at = isoformat(t)])

\* What the try block of add_message writes to the store: the upsert is its
\* last statement, reached only when the generation call returned.
add_message_try(coll, message, chat, messages, ai_id, t, fail) ==
    IF fail \in {"generation", "upsert"}
    THEN coll
    ELSE upsert(coll, message.chat_id,
                [chat EXCEPT !.messages =
                    Append(messages,
                           [id |-> ai_id,
                            content |-> generated_text(message.content),
                            role |-> "assistant",
                            created_at |-> isoformat(t)]),
                 !.updated_at = isoformat(t)])

\* ChatService.add_message.  t is the clock at entry, t2 the clock once the
\* generation call is over; fail names the external call that raises.
add_message(coll, message, message_id, ai_id, t, t2, fail) ==
    LET response == retrieve(coll, message.chat_id)
    IN  IF fail = "retrieve"
        THEN [exc |-> "Exception", chats |-> coll, result |-> << >>,
              generation |-> "not called", local |-> << >>]
        ELSE IF response = << >>
        THEN [exc |-> "ValueError", chats |-> coll, result |-> << >>,
              generation |-> "not called", local |-> << >>]
        ELSE
        LET chat == response[1]
            new_message == [id |-> message_id,
                            content |-> message.content,
                            role |-> message.role,
                            created_at |-> isoformat(t)]
            messages == Append(chat.messages, new_message)
            raised == IF fail \in {"generation", "upsert"}
                      THEN fail \o " failed" ELSE "none"
            escaped == IF raised = "none" THEN "none"
                       ELSE add_message_except("Exception")
            ai_message == [id |-> ai_id,
                           content |-> IF raised = "none"
                                       THEN generated_text(message.content)
                                       ELSE error_text(raised),
                           role |-> "assistant",
                           created_at |-> isoformat(t2)]
        IN  [exc |-> escaped,
             chats |-> add_message_try(coll, message, chat, messages,
                                       ai_id, t2, fail),
             result |-> IF escaped = "none"
                        THEN <<[id |-> message_id,
                                content |-> message.content,
                                role |-> message.role,
                                chat_id |-> message.chat_id,
                                created_at |-> t]>>
                        ELSE << >>,
             generation |-> IF fail = "generation" THEN "raised"
                            ELSE "returned",
             local |-> Append(messages, ai_message)]

(***************************************************************************)
(* The HTTP endpoint layer: exception -> status code.                      *)
(***************************************************************************)
\* POST /chats/ and GET /chats/: any exception is a 500.
create_chat_status(exc) == IF exc = "none" THEN 200 ELSE 500

\* GET /chats/{chat_id}/messages/: any exception is a 404.
get_chat_messages_status(exc) == IF exc = "none" THEN 200 ELSE 404

\* An endpoint without the ValueError clause.
add_message_status_no404(exc) == IF exc = "none" THEN 200 ELSE 500

\* POST /chats/{chat_id}/messages/: ValueError is a 404, the rest a 500.
add_message_status(exc) ==
    IF exc = "none" THEN 200
    ELSE IF exc = "ValueError" THEN 404
    ELSE 500


(***************************************************************************)
(* Documents.  The query index is built over the vector store of the      *)
(* "documents" collection, so index.insert adds a node point to the same   *)
(* collection the service writes its own points to.  A point written by    *)
(* the service has the payload keys text and metadata; a node point keeps  *)
(* the node (its text and its metadata) under the key node.                *)
(***************************************************************************)
ReservedKeys == {"id", "created_at"}

\* The empty dict.
EmptyMeta == [k \in {} |-> ""]

\* {**base, **override}: the keys of both, override winning.
Merge(base, override) ==
    [k \in DOMAIN base \cup DOMAIN override |->
        IF k \in DOMAIN override THEN override[k] ELSE base[k]]

\* {k: v for k, v in metadata.items() if k not in ["id", "created_at"]}
filtered_metadata(metadata) ==
    [k \in DOMAIN metadata \ ReservedKeys |-> metadata[k]]

\* dict.get(key) with None for a missing key.
Get(metadata, key) ==
    IF key \in DOMAIN metadata THEN metadata[key] ELSE NoneVal

\* Python truthiness of a str-or-None value.
Truthy(v) == v # NoneVal /\ v # ""

\* The point id a caller's id string names; Malformed when the string is not
\* a uuid (the store then rejects the call).
Malformed == 0 - 1

point_id(s, bound) ==
    IF \E n \in 1..bound : str_uuid(n) = s
    THEN CHOOSE n \in 1..bound : str_uuid(n) = s
    ELSE Malformed

\* The metadata add_document stores: the synthesized keys first, the
\* caller's mapping unpacked after them.
add_document_metadata(doc_id, t, document) ==
    Merge([id |-> str_uuid(doc_id), created_at |-> isoformat(t)],
          document.metadata)

\* The metadata of the DocumentRead that add_document and update_document
\* return.
returned_metadata(document) == document.metadata

\* ChatService.add_document.  fail names the external call that raises;
\* embedding tells what became of the get_text_embedding call.
add_document(coll, document, doc_id, node_id, t, fail) ==
    LET metadata == add_document_metadata(doc_id, t, document)
        stored == upsert(coll, doc_id,
                         [text |-> document.content, metadata |-> metadata])
        inserted == upsert(stored, node_id,
                           [node |-> [text |-> document.content,
                                      metadata |-> metadata]])
    IN  IF fail = "embedding"
        THEN [exc |-> "ValueError", documents |-> coll, result |-> << >>,
              embedding |-> "raised"]
        ELSE IF fail = "upsert"
        THEN [exc |-> "ValueError", documents |-> coll, result |-> << >>,
              embedding |-> "returned"]
        ELSE IF fail = "insert"
        THEN [exc |-> "ValueError", documents |-> stored, result |-> << >>,
              embedding |-> "returned"]
        ELSE [exc |-> "none",
              documents |-> inserted,
              embedding |-> "returned",
              result |-> <<[id |-> str_uuid(doc_id),
                            content |-> document.content,
                            metadata |-> returned_metadata(document),
                            created_at |-> t]>>]

\* A loop body that appends the record without parsing its timestamp first.
list_documents_point_noskip(payload) ==
    LET metadata == IF "metadata" \in DOMAIN payload
                    THEN payload.metadata ELSE EmptyMeta
        doc_id == Get(metadata, "id")
        created_at_str == Get(metadata, "created_at")
    IN  IF Truthy(doc_id) /\ Truthy(created_at_str)
        THEN <<[id |-> doc_id,
                content |-> IF "text" \in DOMAIN payload
                            THEN payload.text ELSE "",
                metadata |-> filtered_metadata(metadata),
                created_at |-> fromisoformat(created_at_str)]>>
        ELSE << >>

\* The body of the loop of list_documents for one point: the DocumentRead
\* it appends, or nothing when the point is skipped.
list_documents_point(payload) ==
    LET metadata == IF "metadata" \in DOMAIN payload
                    THEN payload.metadata ELSE EmptyMeta
        doc_id == Get(metadata, "id")
        created_at_str == Get(metadata, "created_at")
    IN  IF Truthy(doc_id) /\ Truthy(created_at_str)
           /\ fromisoformat(created_at_str) # BadTime
        THEN <<[id |-> doc_id,
                content |-> IF "text" \in DOMAIN payload
                            THEN payload.text ELSE "",
                metadata |-> filtered_metadata(metadata),
                created_at |-> fromisoformat(created_at_str)]>>
        ELSE << >>

RECURSIVE list_documents_loop(_, _)
list_documents_loop(coll, page) ==
    IF page = << >> THEN << >>
    ELSE list_documents_point(coll[Head(page)])
         \o list_documents_loop(coll, Tail(page))

\* ChatService.list_documents: one page of the "documents" collection.
list_documents(coll) == list_documents_loop(coll, scroll(coll, ScrollLimit))


\* The metadata of the node the query engine hands back for a point: a node
\* point carries the metadata it was inserted with; a point the service
\* wrote itself is not a serialized node and comes back without those keys.
node_metadata(payload) ==
    IF "node" \in DOMAIN payload THEN payload.node.metadata ELSE EmptyMeta

node_text(payload) ==
    IF "node" \in DOMAIN payload THEN payload.node.text ELSE payload.text

\* The body of the loop of search_similar_documents for one source node.
search_node(payload) ==
    LET doc_metadata == node_metadata(payload)
    IN  IF "id" \in DOMAIN doc_metadata /\ "created_at" \in DOMAIN doc_metadata
        THEN <<[id |-> doc_metadata["id"],
                content |-> node_text(payload),
                metadata |-> filtered_metadata(doc_metadata),
                created_at |-> fromisoformat(doc_metadata["created_at"])]>>
        ELSE << >>

RECURSIVE search_loop(_, _)
search_loop(coll, hits) ==
    IF hits = << >> THEN << >>
    ELSE search_node(coll[Head(hits)]) \o search_loop(coll, Tail(hits))

\* ChatService.search_similar_documents.  hits are the source nodes of the
\* response (the points the top-k query selected); fail = "query" when the
\* query engine raises.
search_similar_documents(coll, hits, fail) ==
    LET found == search_loop(coll, hits)
    IN  IF fail = "query"
           \/ \E i \in 1..Len(found) : found[i].created_at = BadTime
        THEN [exc |-> "ValueError", result |-> << >>]
        ELSE [exc |-> "none", result |-> found]

\* ChatService.update_document.  doc_id is the id string of the request.
update_document(coll, doc_id, document, node_id, bound, fail) ==
    LET pid == point_id(doc_id, bound)
        response == retrieve(coll, pid)
        existing_metadata == IF "metadata" \in DOMAIN response[1]
                             THEN response[1].metadata ELSE EmptyMeta
        created_at_str == Get(existing_metadata, "created_at")
        metadata == Merge([id |-> doc_id, created_at |-> created_at_str],
                          document.metadata)
        stored == upsert(coll, pid,
                         [text |-> document.content, metadata |-> metadata])
        inserted == upsert(stored, node_id,
                           [node |-> [text |-> document.content,
                                      metadata |-> metadata]])
    IN  IF fail = "retrieve" \/ pid = Malformed \/ response = << >>
        THEN [exc |-> "ValueError", documents |-> coll, result |-> << >>,
              embedding |-> "not called"]
        ELSE IF fail = "embedding"
        THEN [exc |-> "ValueError", documents |-> coll, result |-> << >>,
              embedding |-> "raised"]
        ELSE IF fail = "upsert"
        THEN [exc |-> "ValueError", documents |-> coll, result |-> << >>,
              embedding |-> "returned"]
        ELSE IF fail = "insert"
        THEN [exc |-> "ValueError", documents |-> stored, result |-> << >>,
              embedding |-> "returned"]
        ELSE IF fromisoformat(created_at_str) = BadTime
        THEN [exc |-> "ValueError", documents |-> inserted, result |-> << >>,
              embedding |-> "returned"]
        ELSE [exc |-> "none",
              documents |-> inserted,
              embedding |-> "returned",
              result |-> <<[id |-> doc_id,
                            content |-> document.content,
                            metadata |-> returned_metadata(document),
                            created_at |-> fromisoformat(created_at_str)]>>]

\* A delete that looks the id up first and raises when it is not stored.
delete_document_checked(coll, doc_id, bound, fail) ==
    LET pid == point_id(doc_id, bound)
    IN  IF fail = "delete" \/ pid = Malformed \/ pid \notin DOMAIN coll
        THEN [exc |-> "ValueError", documents |-> coll, result |-> FALSE]
        ELSE [exc |-> "none", documents |-> delete(coll, pid), result |-> TRUE]

\* ChatService.delete_document.
delete_document(coll, doc_id, bound, fail) ==
    LET pid == point_id(doc_id, bound)
    IN  IF fail = "delete" \/ pid = Malformed
        THEN [exc |-> "ValueError", documents |-> coll, result |-> FALSE]
        ELSE [exc |-> "none", documents |-> delete(coll, pid), result |-> TRUE]

\* POST /documents/: any exception is a 400.
add_document_status(exc) == IF exc = "none" THEN 200 ELSE 400

\* GET /documents/ and GET /documents/search/: any exception is a 500.
list_documents_status(exc) == IF exc = "none" THEN 200 ELSE 500

\* An endpoint that answers every exception with 500.
update_document_status_all500(exc) == IF exc = "none" THEN 200 ELSE 500

\* PUT /documents/{doc_id} and DELETE /documents/{doc_id}: ValueError is a
\* 404, the rest a 500.
update_document_status(exc) ==
    IF exc = "none" THEN 200
    ELSE IF exc = "ValueError" THEN 404
    ELSE 500


(***************************************************************************)
(* What each operation does to the handles of the service, in the order    *)
(* the operation reads the properties.  init is what the first access to   *)
(* the store client meets; fail names the external call that raises.       *)
(***************************************************************************)
\* ChatService.add_message: the client for the retrieve; the index, inside
\* the try block, once the chat was found.
add_message_handles(svc, init, found, fail) ==
    LET client == qdrant_client(svc, init)
    IN  IF client.exc # "none" \/ fail = "retrieve" \/ ~found
        THEN client
        ELSE index(client.svc, "ok")

\* ChatService.add_document: the embedding client, the store client, the
\* index, and the refresh after the insert.
add_document_handles(svc, init, fail) ==
    LET embed == embed_model(svc)
        client == qdrant_client(embed, init)
        idx == index(client.svc, "ok")
    IN  IF fail = "embedding" THEN [svc |-> embed, exc |-> "none"]
        ELSE IF client.exc # "none" \/ fail = "upsert" THEN client
        ELSE IF fail = "insert" THEN idx
        ELSE [svc |-> refresh_index(idx.svc), exc |-> "none"]

\* ChatService.delete_document: the store client, and the refresh after the
\* delete.
delete_document_handles(svc, init, deleted) ==
    LET client == qdrant_client(svc, init)
    IN  IF client.exc # "none" \/ ~deleted THEN client
        ELSE [svc |-> refresh_index(client.svc), exc |-> "none"]

\* ChatService.update_document: the store client for the retrieve; once the
\* document was found the embedding client, the index, and the refresh after
\* the insert.
update_document_handles(svc, init, found, fail) ==
    LET client == qdrant_client(svc, init)
        embed == embed_model(client.svc)
        idx == index(embed, "ok")
    IN  IF client.exc # "none" \/ ~found THEN client
        ELSE IF fail \in {"embedding", "upsert"}
        THEN [svc |-> embed, exc |-> "none"]
        ELSE IF fail = "insert" THEN idx
        ELSE [svc |-> refresh_index(idx.svc), exc |-> "none"]

\* The outcomes the first access to the store client can have in a request:
\* once the client slot is set nothing is constructed, and a request is
\* given one failure at most.
InitInputs(svc, fail) ==
    IF svc.handle["qdrant_client"] # 0 \/ fail # "none"
    THEN {"ok"}
    ELSE InitOutcomes

\* The call that raises in a request: the call the client was read for when
\* the property raised, the call named otherwise.
Failing(init, first_call, fail) == IF init # "ok" THEN first_call ELSE fail

(***************************************************************************)
(* The state machine.                                                      *)
(***************************************************************************)
\* The documents callers send: ordinary metadata, and metadata that carries
\* one of the keys the service synthesizes.
DocInputs ==
    {[content |-> "doc1", metadata |-> [topic |-> "fastapi"]],
     [content |-> "doc2", metadata |-> [id |-> "mine", topic |-> "qdrant"]],
     [content |-> "doc2", metadata |-> [created_at |-> "yesterday"]]}

EmptyStore == [p \in {} |-> [text |-> ""]]

NoRequest ==
    [op |-> "none", arg |-> [none |-> TRUE], fail |-> "none", exc |-> "none",
     status |-> 0, result |-> << >>, generation |-> "not called",
     embedding |-> "not called", took |-> TRUE]

Reply(op, arg, fail, exc, status, result, generation, embedding, took) ==
    [op |-> op, arg |-> arg, fail |-> fail, exc |-> exc, status |-> status,
     result |-> result, generation |-> generation, embedding |-> embedding,
     took |-> took]

\* A request took effect when it returned normally or wrote to the store, or
\* when it changed the handles of the service.  One that did none of these
\* leaves nothing behind but its error reply: the uuids it drew were never
\* stored or shown, so they are as good as undrawn.  A read that constructs
\* no handle takes no effect either.  The reply of a request depends on the stores, the
\* clock and the counters, never on the reply before it, so whatever follows
\* a request without effect also follows the last request that had one: the
\* model issues requests from those states only (resp.took).
Took(exc, before, after) == exc = "none" \/ after # before

\* The server processes that serve requests over the one store.  A call runs
\* without suspension inside one process (add_message awaits nothing), so
\* calls that overlap in time are served by different processes.
Workers == {"w1", "w2"}

\* A process that is serving no add_message call.
Idle == [pc |-> "idle"]

\* A service constructed over an empty store.
Init ==
    /\ chats = EmptyStore
    /\ documents = EmptyStore
    /\ now = 0
    /\ nextId = 1
    /\ requests = 0
    /\ resp = NoRequest
    /\ sent = << >>
    /\ inflight = [w \in Workers |-> Idle]
    /\ service = NewService

\* The clock advances between requests.
Tick ==
    /\ now < MaxClock
    /\ now' = now + 1
    /\ UNCHANGED <<chats, documents, nextId, requests, resp, sent, inflight,
                   service>>

\* POST /chats/
POST_chats ==
    /\ resp.took
    /\ requests < MaxRequests
    /\ \E chat \in ChatInputs, fail \in {"none", "upsert"} :
       \E init \in InitInputs(service, fail) :
          LET client == qdrant_client(service, init)
              failing == Failing(init, "upsert", fail)
              r == create_chat(chats, chat, nextId, now, failing)
              took == Took(r.exc, chats, r.chats)
              effect == took \/ client.svc # service
          IN  /\ chats' = r.chats
              /\ service' = client.svc
              /\ nextId' = IF took THEN nextId + 1 ELSE nextId
              /\ requests' = IF effect THEN requests + 1 ELSE requests
              /\ resp' = Reply("create_chat", chat, failing, r.exc,
                               create_chat_status(r.exc), r.result,
                               "not called", "not called", effect)
    /\ UNCHANGED <<documents, now, sent, inflight>>

\* GET /chats/
GET_chats ==
    /\ resp.took
    /\ \E fail \in {"none", "scroll"} :
       \E init \in InitInputs(service, fail) :
          LET client == qdrant_client(service, init)
              failing == Failing(init, "scroll", fail)
              exc == IF failing = "scroll" THEN "Exception" ELSE "none"
              effect == client.svc # service
          IN  /\ effect => requests < MaxRequests
              /\ service' = client.svc
              /\ requests' = IF effect THEN requests + 1 ELSE requests
              /\ resp' = Reply("list_chats", [none |-> TRUE], failing, exc,
                               create_chat_status(exc),
                               IF exc = "none" THEN list_chats(chats)
                               ELSE << >>,
                               "not called", "not called", effect)
    /\ UNCHANGED <<chats, documents, now, nextId, sent, inflight>>

\* The chat ids callers ask for: the stored ones and one that names no chat.
ChatIdInputs == DOMAIN chats \cup {nextId}

\* GET /chats/{chat_id}/messages/
GET_chat_messages ==
    /\ resp.took
    /\ \E chat_id \in ChatIdInputs, fail \in {"none", "retrieve"} :
       \E init \in InitInputs(service, fail) :
          LET client == qdrant_client(service, init)
              failing == Failing(init, "retrieve", fail)
              exc == IF failing = "retrieve" THEN "Exception" ELSE "none"
              effect == client.svc # service
          IN  /\ effect => requests < MaxRequests
              /\ service' = client.svc
              /\ requests' = IF effect THEN requests + 1 ELSE requests
              /\ resp' = Reply("get_chat_messages", [chat_id |-> chat_id],
                               failing, exc, get_chat_messages_status(exc),
                               IF exc = "none"
                               THEN get_chat_messages(chats, chat_id)
                               ELSE << >>,
                               "not called", "not called", effect)
    /\ UNCHANGED <<chats, documents, now, nextId, sent, inflight>>

\* POST /chats/{chat_id}/messages/
POST_chat_messages ==
    /\ resp.took
    /\ requests < MaxRequests
    /\ \E chat_id \in ChatIdInputs, content \in Contents, role \in Roles,
          fail \in {"none", "retrieve", "generation", "upsert"},
          t2 \in {now, now + 1} :
       \E init \in InitInputs(service, fail) :
          LET message == [content |-> content, role |-> role,
                          chat_id |-> chat_id]
              failing == Failing(init, "retrieve", fail)
              r == add_message(chats, message, nextId, nextId + 1, now, t2,
                               failing)
              called == r.generation # "not called"
              handles == add_message_handles(service, init,
                                             chat_id \in DOMAIN chats, failing)
              took == Took(r.exc, chats, r.chats)
              effect == took \/ handles.svc # service
          IN  /\ t2 <= MaxClock
              /\ (~called) => (t2 = now /\ failing \in {"none", "retrieve"})
              /\ chats' = r.chats
              /\ service' = handles.svc
              /\ now' = t2
              /\ nextId' = IF took THEN nextId + 2 ELSE nextId
              /\ requests' = IF effect THEN requests + 1 ELSE requests
              /\ resp' = Reply("add_message", message, failing, r.exc,
                               add_message_status(r.exc), r.result,
                               r.generation, "not called", effect)
              /\ sent' = sent \o r.result
    /\ UNCHANGED <<documents, inflight>>

\* POST /documents/
POST_documents ==
    /\ resp.took
    /\ requests < MaxRequests
    /\ \E document \in DocInputs,
          fail \in {"none", "embedding", "upsert", "insert"} :
       \E init \in InitInputs(service, fail) :
          LET failing == Failing(init, "upsert", fail)
              r == add_document(documents, document, nextId, nextId + 1, now,
                                failing)
              handles == add_document_handles(service, init, failing)
              took == Took(r.exc, documents, r.documents)
              effect == took \/ handles.svc # service
          IN  /\ documents' = r.documents
              /\ service' = handles.svc
              /\ nextId' = IF took THEN nextId + 2 ELSE nextId
              /\ requests' = IF effect THEN requests + 1 ELSE requests
              /\ resp' = Reply("add_document", document, failing, r.exc,
                               add_document_status(r.exc), r.result,
                               "not called", r.embedding, effect)
    /\ UNCHANGED <<chats, now, sent, inflight>>

\* GET /documents/
GET_documents ==
    /\ resp.took
    /\ \E fail \in {"none", "scroll"} :
       \E init \in InitInputs(service, fail) :
          LET client == qdrant_client(service, init)
              failing == Failing(init, "scroll", fail)
              exc == IF failing = "scroll" THEN "ValueError" ELSE "none"
              effect == client.svc # service
          IN  /\ effect => requests < MaxRequests
              /\ service' = client.svc
              /\ requests' = IF effect THEN requests + 1 ELSE requests
              /\ resp' = Reply("list_documents", [none |-> TRUE], failing,
                               exc, list_documents_status(exc),
                               IF exc = "none"
                               THEN list_documents(documents) ELSE << >>,
                               "not called", "not called", effect)
    /\ UNCHANGED <<chats, documents, now, nextId, sent, inflight>>

\* The text a stored point was embedded from.
embedded_text(payload) ==
    IF "node" \in DOMAIN payload THEN payload.node.text ELSE payload.text

\* The answers the top-k query can give: TopK of the stored points (all of
\* them when there are no more than TopK), in the order scroll uses.  A
\* point embedded from the query text itself has the same vector as the
\* query, so no other point is ranked before it; the ranking of the other
\* points is up to the embedding.
TopKHits(coll, query) ==
    LET k == IF Cardinality(DOMAIN coll) <= TopK
             THEN Cardinality(DOMAIN coll) ELSE TopK
    IN  {SortedIds(S) : S \in {T \in SUBSET DOMAIN coll :
            /\ Cardinality(T) = k
            /\ \A p \in T, q \in DOMAIN coll \ T :
                  embedded_text(coll[q]) = query
                      => embedded_text(coll[p]) = query}}

\* GET /documents/search/
GET_documents_search ==
    /\ resp.took
    /\ \E query \in Queries, fail \in {"none", "query"} :
       \E init \in InitInputs(service, fail) :
       \E hits \in TopKHits(documents, query) :
          LET handles == index(service, init)
              failing == Failing(init, "query", fail)
              r == search_similar_documents(documents, hits, failing)
              effect == handles.svc # service
          IN  /\ effect => requests < MaxRequests
              /\ service' = handles.svc
              /\ requests' = IF effect THEN requests + 1 ELSE requests
              /\ resp' = Reply("search_similar_documents",
                               [query |-> query], failing, r.exc,
                               list_documents_status(r.exc), r.result,
                               "not called", "not called", effect)
    /\ UNCHANGED <<chats, documents, now, nextId, sent, inflight>>

\* The document ids callers ask for: every id a listing shows, the id of
\* every point the service wrote, and one that names no document.
DocIdInputs ==
    {list_documents(documents)[i].id :
        i \in 1..Len(list_documents(documents))}
    \cup {str_uuid(p) : p \in {q \in DOMAIN documents :
                                 "metadata" \in DOMAIN documents[q]}}
    \cup {str_uuid(nextId)}

\* PUT /documents/{doc_id}
PUT_documents ==
    /\ resp.took
    /\ requests < MaxRequests
    /\ \E doc_id \in DocIdInputs, document \in DocInputs,
          fail \in {"none", "retrieve", "embedding", "upsert", "insert"} :
       \E init \in InitInputs(service, fail) :
          LET failing == Failing(init, "retrieve", fail)
              r == update_document(documents, doc_id, document, nextId,
                                   nextId, failing)
              handles == update_document_handles(service, init,
                                                 r.embedding # "not called",
                                                 failing)
              took == Took(r.exc, documents, r.documents)
              effect == took \/ handles.svc # service
          IN  /\ documents' = r.documents
              /\ service' = handles.svc
              /\ nextId' = IF took THEN nextId + 1 ELSE nextId
              /\ requests' = IF effect THEN requests + 1 ELSE requests
              /\ resp' = Reply("update_document",
                               [doc_id |-> doc_id, document |-> document],
                               failing, r.exc, update_document_status(r.exc),
                               r.result, "not called", r.embedding, effect)
    /\ UNCHANGED <<chats, now, sent, inflight>>

\* DELETE /documents/{doc_id}
DELETE_documents ==
    /\ resp.took
    /\ requests < MaxRequests
    /\ \E doc_id \in DocIdInputs, fail \in {"none", "delete"} :
       \E init \in InitInputs(service, fail) :
          LET failing == Failing(init, "delete", fail)
              r == delete_document(documents, doc_id, nextId, failing)
              handles == delete_document_handles(service, init,
                                                 r.exc = "none")
              took == Took(r.exc, documents, r.documents)
              effect == took \/ handles.svc # service
          IN  /\ documents' = r.documents
              /\ service' = handles.svc
              /\ requests' = IF effect THEN requests + 1 ELSE requests
              /\ resp' = Reply("delete_document", [doc_id |-> doc_id],
                               failing, r.exc, update_document_status(r.exc),
                               <<r.result>>, "not called", "not called",
                               effect)
    /\ UNCHANGED <<chats, now, nextId, sent, inflight>>

Next ==
    \/ Tick
    \/ POST_chats
    \/ GET_chats
    \/ GET_chat_messages
    \/ POST_chat_messages
    \/ POST_documents
    \/ GET_documents
    \/ GET_documents_search
    \/ PUT_documents
    \/ DELETE_documents

Spec == Init /\ [][Next]_vars

(***************************************************************************)
(* The chat endpoints alone, and the document endpoints alone: the two     *)
(* groups work on different collections.                                   *)
(***************************************************************************)
NextChats ==
    \/ Tick
    \/ POST_chats
    \/ GET_chats
    \/ GET_chat_messages
    \/ POST_chat_messages

SpecChats == Init /\ [][NextChats]_vars

NextDocs ==
    \/ Tick
    \/ POST_documents
    \/ GET_documents
    \/ GET_documents_search
    \/ PUT_documents
    \/ DELETE_documents

SpecDocs == Init /\ [][NextDocs]_vars

(***************************************************************************)
(* A service constructed over a store that already holds SeedChats chats   *)
(* (the store outlives the process), serving the chat listing requests.    *)
(***************************************************************************)
InitPage ==
    /\ chats = [p \in 1..SeedChats |->
                   create_chat_payload([title |-> "t1",
                                        description |-> NoneVal], 0)]
    /\ documents = EmptyStore
    /\ now = 0
    /\ nextId = SeedChats + 1
    /\ requests = 0
    /\ resp = NoRequest
    /\ sent = << >>
    /\ inflight = [w \in Workers |-> Idle]
    /\ service = NewService

NextPage ==
    \/ Tick
    \/ POST_chats
    \/ GET_chats

SpecPage == InitPage /\ [][NextPage]_vars

(***************************************************************************)
(* The requests that create chats and messages, served over a store that    *)
(* already holds one chat and one document.                                *)
(***************************************************************************)
InitPosts ==
    /\ chats = [p \in {1} |->
                   create_chat_payload([title |-> "t1",
                                        description |-> NoneVal], 0)]
    /\ documents = add_document(EmptyStore,
                                [content |-> "doc1",
                                 metadata |-> [topic |-> "fastapi"]],
                                2, 3, 0, "none").documents
    /\ now = 0
    /\ nextId = 4
    /\ requests = 0
    /\ resp = NoRequest
    /\ sent = << >>
    /\ inflight = [w \in Workers |-> Idle]
    /\ service = NewService

NextPosts ==
    \/ Tick
    \/ POST_chats
    \/ POST_chat_messages

SpecPosts == InitPosts /\ [][NextPosts]_vars

(***************************************************************************)
(* add_message calls that overlap in time.  The store is a server of its    *)
(* own; each server process runs the handler as a sequence of blocking      *)
(* calls to it, with no lock and no version check: first the retrieve of    *)
(* the chat (the call keeps the payload it read), then the generation and   *)
(* the upsert of the whole payload.  The store serves the calls of the      *)
(* processes one at a time, in any order.                                   *)
(***************************************************************************)
\* The message dict add_message appends for the caller's message.
new_message(message, message_id, t) ==
    [id |-> message_id,
     content |-> message.content,
     role |-> message.role,
     created_at |-> isoformat(t)]

\* add_message up to and including the retrieve of the chat.
add_message_retrieve(w) ==
    /\ resp.took
    /\ inflight[w].pc # "read"
    /\ requests < MaxCalls
    /\ \E chat_id \in ChatIdInputs, content \in Contents, role \in Roles,
          fail \in {"none", "retrieve"} :
          LET message == [content |-> content, role |-> role,
                          chat_id |-> chat_id]
              response == retrieve(chats, chat_id)
              exc == IF fail = "retrieve" THEN "Exception" ELSE "ValueError"
          IN  IF fail = "retrieve" \/ response = << >>
              THEN /\ resp' = Reply("add_message", message, fail, exc,
                                    add_message_status(exc), << >>,
                                    "not called", "not called", FALSE)
                   /\ UNCHANGED <<inflight, nextId, requests>>
              ELSE /\ inflight' = [inflight EXCEPT ![w] =
                                      [pc |-> "read",
                                       message |-> message,
                                       chat |-> response[1],
                                       message_id |-> nextId,
                                       t |-> now,
                                       fail |-> "none"]]
                   /\ nextId' = nextId + 1
                   /\ requests' = requests + 1
                   /\ UNCHANGED resp
    /\ UNCHANGED <<chats, documents, now, sent, service>>

\* The rest of add_message: the try block and the return.
add_message_upsert(w) ==
    /\ inflight[w].pc = "read"
    /\ \E fail \in {"none", "generation", "upsert"}, t2 \in {now, now + 1} :
          LET call == inflight[w]
              messages == Append(call.chat.messages,
                                 new_message(call.message, call.message_id,
                                             call.t))
              exc == IF fail = "none" THEN "none"
                     ELSE add_message_except("Exception")
          IN  /\ t2 <= MaxClock
              /\ chats' = add_message_try(chats, call.message, call.chat,
                                          messages, nextId, t2, fail)
              /\ now' = t2
              /\ nextId' = nextId + 1
              /\ resp' = Reply("add_message", call.message, fail, exc,
                               add_message_status(exc),
                               <<[id |-> call.message_id,
                                  content |-> call.message.content,
                                  role |-> call.message.role,
                                  chat_id |-> call.message.chat_id,
                                  created_at |-> call.t]>>,
                               IF fail = "generation" THEN "raised"
                               ELSE "returned",
                               "not called", TRUE)
              /\ sent' = sent \o resp'.result
              /\ inflight' = [inflight EXCEPT ![w] =
                                 [call EXCEPT !.pc = "done", !.fail = fail]]
    /\ UNCHANGED <<documents, requests, service>>

\* Two server processes over a store that holds one chat; each has served
\* requests before, so its handles are set.
InitRace ==
    /\ chats = [p \in {1} |->
                   create_chat_payload([title |-> "t1",
                                        description |-> NoneVal], 0)]
    /\ documents = EmptyStore
    /\ now = 0
    /\ nextId = 2
    /\ requests = 0
    /\ resp = NoRequest
    /\ sent = << >>
    /\ inflight = [w \in Workers |-> Idle]
    /\ service = index(NewService, "ok").svc

NextRace ==
    \/ Tick
    \/ \E w \in Workers : add_message_retrieve(w)
    \/ \E w \in Workers : add_message_upsert(w)

SpecRace == InitRace /\ [][NextRace]_vars


(***************************************************************************)
(* Properties.                                                             *)
(***************************************************************************)
\* str.startswith("Error:") on a message content.
StartsWithError(content) == Len(content) > 0 /\ content[1] = "Error:"

\* The last add_message call returned a message record.
AddMessageReturned == resp.op = "add_message" /\ resp.exc = "none"

\* What a get_chat_messages issued now would return for the chat of the last
\* request.
StoredMessages == get_chat_messages(chats, resp.arg.chat_id)

\* C1: once add_message has returned for an existing chat, the stored list of
\* that chat holds at least two messages, the returned user message and an
\* assistant message after it, and when the generation backend raised, the
\* content of that assistant message starts with "Error:" (the store calls
\* themselves working).
C1_StoredUserAndAssistant ==
    (AddMessageReturned /\ resp.fail \in {"none", "generation"}) =>
        LET msgs == StoredMessages
            n == Len(msgs)
        IN  /\ n >= 2
            /\ msgs[n - 1] = resp.result[1]
            /\ msgs[n].role = "assistant"
            /\ resp.generation = "raised" => StartsWithError(msgs[n].content)

\* C2: a failure of the generation backend in add_message on an existing chat
\* is not propagated: the service raises nothing, returns the record of the
\* message it was given, and the endpoint answers 200.
C2_GenerationFailureSwallowed ==
    (resp.op = "add_message" /\ resp.generation = "raised") =>
        /\ resp.exc = "none"
        /\ resp.status = 200
        /\ Len(resp.result) = 1
        /\ resp.result[1].content = resp.arg.content
        /\ resp.result[1].role = resp.arg.role
        /\ resp.result[1].chat_id = resp.arg.chat_id

\* C2 witness: an add_message call whose generation call raised.
C2_Witness == resp.op = "add_message" /\ resp.generation = "raised"

\* C3: add_message returns the record of the message it was given, under the
\* id it is stored with, and the assistant reply is the message stored
\* directly after it (the store calls themselves working).
C3_ReturnsStoredUserMessage ==
    (AddMessageReturned /\ resp.fail \in {"none", "generation"}) =>
        /\ resp.result[1].content = resp.arg.content
        /\ resp.result[1].role = resp.arg.role
        /\ resp.result[1].chat_id = resp.arg.chat_id
        /\ \E i \in 1..(Len(StoredMessages) - 1) :
              /\ StoredMessages[i].id = resp.result[1].id
              /\ StoredMessages[i].content = resp.arg.content
              /\ StoredMessages[i + 1].role = "assistant"
              /\ StoredMessages[i + 1].id # resp.result[1].id

\* C4: get_chat_messages answers 404 for a chat id that names no stored chat,
\* and 200 with the stored messages for a stored chat.
C4_UnknownChatIsNotFound ==
    (resp.op = "get_chat_messages" /\ resp.fail = "none") =>
        IF resp.arg.chat_id \in DOMAIN chats
        THEN resp.status = 200 /\ resp.result = StoredMessages
        ELSE resp.status = 404 /\ resp.exc # "none"

\* C5: add_message on a chat id that names no stored chat raises ValueError,
\* is answered with 404, does not call the generation backend and leaves both
\* collections as they were.
C5_AddMessageUnknownChat ==
    [][(/\ resp'.op = "add_message"
        /\ resp'.fail # "retrieve"
        /\ resp'.arg.chat_id \notin DOMAIN chats)
       => (/\ resp'.exc = "ValueError"
           /\ resp'.status = 404
           /\ resp'.generation = "not called"
           /\ resp'.result = << >>
           /\ chats' = chats
           /\ documents' = documents)]_vars

\* C5 witness: add_message was called with the id of no chat while a chat
\* is stored.
C5_Witness ==
    /\ resp.op = "add_message"
    /\ resp.fail = "none"
    /\ resp.arg.chat_id \notin DOMAIN chats
    /\ DOMAIN chats # {}

\* C6: when the upsert that persists the message list fails in add_message,
\* the request is answered with 500.
C6_UpsertFailureIs500 ==
    (resp.op = "add_message" /\ resp.fail = "upsert"
        /\ resp.generation = "returned") => resp.status = 500

\* The messages of sent that went to chat c, in call order.
SentTo(c) == SelectSeq(sent, LAMBDA m : m.chat_id = c)

\* The position of the message with the given id in a list (0: not there).
PositionOf(msgs, id) ==
    IF \E i \in 1..Len(msgs) : msgs[i].id = id
    THEN CHOOSE i \in 1..Len(msgs) : msgs[i].id = id
    ELSE 0

\* C7: after n completed add_message calls on a chat, get_chat_messages
\* returns at least 2n messages, with the messages of the calls in call order.
C7_TwoMessagesPerCall ==
    \A c \in DOMAIN chats :
        LET msgs == get_chat_messages(chats, c)
            calls == SentTo(c)
        IN  /\ Len(msgs) >= 2 * Len(calls)
            /\ \A i \in 1..Len(calls) : PositionOf(msgs, calls[i].id) > 0
            /\ \A i, j \in 1..Len(calls) :
                  i < j => PositionOf(msgs, calls[i].id)
                             < PositionOf(msgs, calls[j].id)

\* A chat listing issued now holds the chat the last create_chat returned
\* exactly once, with the title and description it was created with.
CreatedListedOnce ==
    LET listing == list_chats(chats)
        entries == {i \in 1..Len(listing) : listing[i].id = resp.result[1].id}
    IN  /\ Cardinality(entries) = 1
        /\ \A i \in entries :
              /\ listing[i].title = resp.arg.title
              /\ listing[i].description = resp.arg.description

\* C8 as stated: after create_chat succeeds, in any state, list_chats returns
\* the created chat exactly once, with its title and description.
C8_CreatedChatListed ==
    (resp.op = "create_chat" /\ resp.exc = "none") => CreatedListedOnce

\* C8 amended: after create_chat succeeds in a store that then holds at most
\* ScrollLimit (100) chats, list_chats returns the created chat exactly once,
\* with its title and description.
C8_CreatedChatListedWithinPage ==
    (resp.op = "create_chat" /\ resp.exc = "none"
        /\ Cardinality(DOMAIN chats) <= ScrollLimit) => CreatedListedOnce

\* C8 witness: create_chat has just filled the page: the store holds exactly
\* ScrollLimit chats.
C8_Witness ==
    /\ resp.op = "create_chat"
    /\ resp.exc = "none"
    /\ Cardinality(DOMAIN chats) = ScrollLimit

\* C9: after add_document succeeds, list_documents returns a document with
\* the returned id, the same content, and the caller's metadata without the
\* keys id and created_at.
C9_AddedDocumentListed ==
    (resp.op = "add_document" /\ resp.exc = "none") =>
        \E i \in 1..Len(list_documents(documents)) :
            /\ list_documents(documents)[i].id = resp.result[1].id
            /\ list_documents(documents)[i].content = resp.arg.content
            /\ list_documents(documents)[i].metadata
                   = filtered_metadata(resp.arg.metadata)

\* C10: no Document returned by add_document, update_document, list_documents
\* or search_similar_documents has the key id or created_at in its metadata.
C10_NoReservedKeysReturned ==
    resp.op \in {"add_document", "update_document", "list_documents",
                 "search_similar_documents"} =>
        \A i \in 1..Len(resp.result) :
            DOMAIN resp.result[i].metadata \cap ReservedKeys = {}

\* The entries a document listing of the collection shows under the id.
ListedAs(coll, id) ==
    LET listing == list_documents(coll)
    IN  {listing[i] : i \in {j \in 1..Len(listing) : listing[j].id = id}}

\* C11: when update_document succeeds on a document that is listed under the
\* id of the request, the returned record has that id, the created_at the
\* listing showed before the call, and the new content and metadata; and the
\* listing after the call shows the document under the same id with the same
\* created_at, the new content and the new metadata (without the keys id and
\* created_at).
C11_UpdateKeepsIdAndCreatedAt ==
    [][(/\ resp'.op = "update_document"
        /\ resp'.exc = "none"
        /\ requests' = requests + 1
        /\ ListedAs(documents, resp'.arg.doc_id) # {})
       => LET id == resp'.arg.doc_id
              before == ListedAs(documents, id)
              after == ListedAs(documents', id)
              returned == resp'.result[1]
          IN  /\ returned.id = id
              /\ returned.content = resp'.arg.document.content
              /\ returned.metadata = resp'.arg.document.metadata
              /\ \A b \in before : returned.created_at = b.created_at
              /\ Cardinality(after) = 1
              /\ \A a \in after :
                    /\ a.content = resp'.arg.document.content
                    /\ a.metadata
                         = filtered_metadata(resp'.arg.document.metadata)
                    /\ \A b \in before : a.created_at = b.created_at]_vars

\* C12: update_document with an id that names no stored point raises
\* ValueError, is answered with 404, computes no embedding and leaves the
\* "documents" collection (the service's points and the index nodes) as it
\* was.
C12_UpdateUnknownDocument ==
    [][(/\ resp'.op = "update_document"
        /\ resp'.fail = "none"
        /\ point_id(resp'.arg.doc_id, nextId) \notin DOMAIN documents)
       => (/\ resp'.exc = "ValueError"
           /\ resp'.status = 404
           /\ resp'.embedding = "not called"
           /\ resp'.result = << >>
           /\ documents' = documents)]_vars

\* C12 witness: update_document was called with a well-formed id that names
\* no point while documents are stored.
C12_Witness ==
    /\ resp.op = "update_document"
    /\ resp.fail = "none"
    /\ resp.arg.doc_id = str_uuid(nextId)
    /\ resp.exc = "ValueError"
    /\ DOMAIN documents # {}

\* C13: when update_document fails on a stored document (the lookup found
\* it, so the embedding call was made), PUT /documents/{id} answers 500.
C13_UpdateFailureIs500 ==
    (/\ resp.op = "update_document"
     /\ resp.embedding # "not called"
     /\ resp.exc # "none") => resp.status = 500

\* The ids of the documents a search issued on the collection can return,
\* over every query and every answer of the top-k query.
SearchableIds(coll) ==
    UNION {LET r == search_similar_documents(coll, hits, "none")
           IN  {r.result[i].id : i \in 1..Len(r.result)} :
              hits \in UNION {TopKHits(coll, query) : query \in Queries}}

\* C14: once delete_document has succeeded for a stored document, neither a
\* document listing nor a search returns a document with its id.
C14_DeletedDocumentGone ==
    [][(/\ resp'.op = "delete_document"
        /\ resp'.exc = "none"
        /\ requests' = requests + 1
        /\ point_id(resp'.arg.doc_id, nextId) \in DOMAIN documents)
       => (/\ ListedAs(documents', resp'.arg.doc_id) = {}
           /\ resp'.arg.doc_id \notin SearchableIds(documents'))]_vars

\* C15: DELETE /documents/{id} with an id that names no stored point is
\* answered with 404 (the store call itself working).
C15_DeleteUnknownIs404 ==
    [][(/\ resp'.op = "delete_document"
        /\ resp'.fail = "none"
        /\ resp' # resp
        /\ point_id(resp'.arg.doc_id, nextId) \notin DOMAIN documents)
       => resp'.status = 404]_vars

\* C16: after add_document succeeds, every answer a search for the content
\* of the document can give holds a document with the returned id.
C16_AddedDocumentFound ==
    (resp.op = "add_document" /\ resp.exc = "none") =>
        \A hits \in TopKHits(documents, resp.arg.content) :
            LET r == search_similar_documents(documents, hits, "none")
            IN  /\ r.exc = "none"
                /\ \E i \in 1..Len(r.result) :
                      r.result[i].id = resp.result[1].id

\* The ids of the messages stored in a chat.
StoredIds(c) == {chats[c].messages[i].id : i \in 1..Len(chats[c].messages)}

\* Two finished add_message calls on the same chat overlapped in time: each
\* wrote the list and neither had read the message of the other.
Overlapped(a, b) ==
    /\ a.pc = "done" /\ b.pc = "done"
    /\ a.fail = "none" /\ b.fail = "none"
    /\ a.message.chat_id = b.message.chat_id
    /\ \A i \in 1..Len(b.chat.messages) :
          b.chat.messages[i].id # a.message_id
    /\ \A i \in 1..Len(a.chat.messages) :
          a.chat.messages[i].id # b.message_id

\* C17: add_message calls on one chat are not serialized.  When two calls
\* overlapped and both returned their message record, the list stored
\* afterwards is the list of the call that wrote last: it holds the message
\* of exactly one of the two calls.
C17_LastWriteWins ==
    \A w, v \in Workers :
        (w # v /\ Overlapped(inflight[w], inflight[v])) =>
            LET c == inflight[w].message.chat_id
            IN  (inflight[w].message_id \in StoredIds(c))
                    # (inflight[v].message_id \in StoredIds(c))

\* C17 witness: both of two overlapping calls on a chat have returned their
\* message record and the stored list lacks the message of one of them.
C17_Witness ==
    \E w, v \in Workers :
        /\ w # v
        /\ Overlapped(inflight[w], inflight[v])
        /\ \E i, j \in 1..Len(sent) :
              /\ sent[i].id = inflight[w].message_id
              /\ sent[j].id = inflight[v].message_id
        /\ inflight[w].message_id
               \notin StoredIds(inflight[w].message.chat_id)
        /\ inflight[v].message_id \in StoredIds(inflight[v].message.chat_id)

\* C18: a call of add_document or update_document that ends in an error
\* leaves the "documents" collection (the service's points and the index
\* nodes) exactly as it was.
C18_FailedCallWritesNothing ==
    [][(resp'.op \in {"add_document", "update_document"}
        /\ resp'.exc # "none") => documents' = documents]_vars

\* s is a prefix of t.
IsPrefix(s, t) == Len(s) <= Len(t) /\ SubSeq(t, 1, Len(s)) = s

\* C19: every operation, run one after another, keeps every stored chat and
\* leaves the messages get_chat_messages returned for it before as a prefix
\* of what it returns after: same ids, contents and roles, same order.
C19_MessagesAppendOnly ==
    [][\A c \in DOMAIN chats :
          /\ c \in DOMAIN chats'
          /\ IsPrefix(get_chat_messages(chats, c),
                      get_chat_messages(chats', c))]_vars

\* C19 witness: add_message has appended to a chat that already held
\* messages.
C19_Witness ==
    /\ resp.op = "add_message"
    /\ resp.fail = "none"
    /\ resp.exc = "none"
    /\ Len(StoredMessages) >= 4
    /\ StoredMessages[Len(StoredMessages) - 1].id = resp.result[1].id

\* C20: every message stored in a chat has the role "user" or "assistant".
C20_RolesUserOrAssistant ==
    \A c \in DOMAIN chats :
        \A i \in 1..Len(chats[c].messages) :
            chats[c].messages[i].role \in {"user", "assistant"}

\* C21: delete_document with a well-formed id that names no stored point, the
\* delete call of the store not raising, returns True (answered 200) and
\* leaves the "documents" collection as it was, the first time and every
\* time after.
C21_DeleteUnknownReturnsTrue ==
    [][(/\ resp'.op = "delete_document"
        /\ resp'.fail = "none"
        /\ point_id(resp'.arg.doc_id, nextId) # Malformed
        /\ point_id(resp'.arg.doc_id, nextId) \notin DOMAIN documents)
       => (/\ resp'.exc = "none"
           /\ resp'.result = <<TRUE>>
           /\ resp'.status = 200
           /\ documents' = documents)]_vars

\* C21 witness: delete_document has returned True twice for the same id on a
\* store that never held a document: no uuid was drawn, so both requests
\* that took effect were deletes of the one id callers can name.
C21_Witness ==
    /\ resp.op = "delete_document"
    /\ resp.exc = "none"
    /\ resp.result = <<TRUE>>
    /\ resp.arg.doc_id = str_uuid(1)
    /\ nextId = 1
    /\ requests = 2
    /\ documents = EmptyStore

\* Every stored chat has timestamps that parse, updated_at not before
\* created_at.
ChatTimesOrdered ==
    \A c \in DOMAIN chats :
        /\ fromisoformat(chats[c].created_at) # BadTime
        /\ fromisoformat(chats[c].updated_at)
              >= fromisoformat(chats[c].created_at)

\* No step moves the updated_at of a stored chat back or changes its
\* created_at, and a chat that appears has both set to the same instant.
ChatTimesForward ==
    /\ \A c \in DOMAIN chats :
          /\ c \in DOMAIN chats'
          /\ chats'[c].created_at = chats[c].created_at
          /\ fromisoformat(chats'[c].updated_at)
                >= fromisoformat(chats[c].updated_at)
    /\ \A c \in DOMAIN chats' \ DOMAIN chats :
          chats'[c].updated_at = chats'[c].created_at

\* C23: in every reachable state each stored chat has updated_at >=
\* created_at; create_chat sets both to the same instant and add_message only
\* moves updated_at forward.
C23_UpdatedNotBeforeCreated ==
    []ChatTimesOrdered /\ [][ChatTimesForward]_vars

\* C23 witness: add_message has moved the updated_at of a chat past its
\* created_at.
C23_Witness ==
    \E c \in DOMAIN chats :
        /\ Len(chats[c].messages) >= 2
        /\ fromisoformat(chats[c].updated_at)
              > fromisoformat(chats[c].created_at)

\* C24: list_chats returns at most ScrollLimit (100) chats, each a stored
\* chat and none twice; with more than that stored it returns exactly one
\* page of 100 and raises nothing (answered 200), so the chats beyond the
\* page are missing from the result.
C24_ListChatsOnePage ==
    (resp.op = "list_chats" /\ resp.fail = "none") =>
        LET ids == {resp.result[i].id : i \in 1..Len(resp.result)}
        IN  /\ resp.exc = "none"
            /\ resp.status = 200
            /\ Len(resp.result) <= ScrollLimit
            /\ Cardinality(ids) = Len(resp.result)
            /\ ids \subseteq DOMAIN chats
            /\ Cardinality(DOMAIN chats) <= ScrollLimit
                  => ids = DOMAIN chats
            /\ Cardinality(DOMAIN chats) > ScrollLimit
                  => (Len(resp.result) = ScrollLimit /\ ids # DOMAIN chats)

\* C24 witness: a listing was answered while more than ScrollLimit chats
\* were stored.
C24_Witness ==
    /\ resp.op = "list_chats"
    /\ resp.exc = "none"
    /\ Cardinality(DOMAIN chats) > ScrollLimit
    /\ Len(resp.result) = ScrollLimit

\* A stored record with a metadata mapping that has an id, a created_at, and
\* a created_at that is a timestamp.
WellFormed(payload) ==
    /\ "metadata" \in DOMAIN payload
    /\ "id" \in DOMAIN payload.metadata
    /\ "created_at" \in DOMAIN payload.metadata
    /\ \E t \in 0..MaxClock : payload.metadata["created_at"] = isoformat(t)

\* C25: list_documents, the scroll call working, raises nothing whatever the
\* scanned records hold: it returns one document for each scanned record
\* that is well formed (its id, text, parsed created_at, and its metadata
\* without the keys id and created_at) and nothing for the others.
C25_ListDocumentsSkipsMalformed ==
    (resp.op = "list_documents" /\ resp.fail = "none") =>
        LET page == scroll(documents, ScrollLimit)
            good == {i \in 1..Len(page) : WellFormed(documents[page[i]])}
        IN  /\ resp.exc = "none"
            /\ resp.status = 200
            /\ Len(resp.result) = Cardinality(good)
            /\ \A j \in 1..Len(resp.result) :
                  /\ DOMAIN resp.result[j].metadata \cap ReservedKeys = {}
                  /\ resp.result[j].created_at \in 0..MaxClock
            /\ \A i \in good :
                  LET payload == documents[page[i]]
                  IN  \E j \in 1..Len(resp.result) :
                        /\ resp.result[j].id = payload.metadata["id"]
                        /\ resp.result[j].content = payload.text
                        /\ isoformat(resp.result[j].created_at)
                              = payload.metadata["created_at"]
                        /\ \A k \in DOMAIN payload.metadata \ ReservedKeys :
                              /\ k \in DOMAIN resp.result[j].metadata
                              /\ resp.result[j].metadata[k]
                                    = payload.metadata[k]

\* C25 witness: a listing was answered over a collection that holds a record
\* with a created_at that is no timestamp, a record without metadata (an
\* index node) and a well-formed record.
C25_Witness ==
    /\ resp.op = "list_documents"
    /\ resp.exc = "none"
    /\ Len(resp.result) >= 1
    /\ \E p \in DOMAIN documents : "metadata" \notin DOMAIN documents[p]
    /\ \E p \in DOMAIN documents :
          /\ "metadata" \in DOMAIN documents[p]
          /\ "created_at" \in DOMAIN documents[p].metadata
          /\ ~WellFormed(documents[p])

\* C26: an add_message call that returns changes nothing but the messages
\* and updated_at of the chat it was sent to: the set of chats, the title,
\* description and created_at of that chat, every other chat and the
\* "documents" collection are as before.
C26_AddMessageFrame ==
    [][(/\ resp'.op = "add_message"
        /\ resp'.exc = "none"
        /\ requests' = requests + 1)
       => LET c == resp'.arg.chat_id
          IN  /\ DOMAIN chats' = DOMAIN chats
              /\ chats'[c].title = chats[c].title
              /\ chats'[c].description = chats[c].description
              /\ chats'[c].created_at = chats[c].created_at
              /\ DOMAIN chats'[c] = DOMAIN chats[c]
              /\ \A d \in DOMAIN chats \ {c} : chats'[d] = chats[d]
              /\ documents' = documents]_vars

\* C26 witness: add_message has stored its messages in one of two chats, the
\* chat with a description, while documents are stored.
C26_Witness ==
    /\ resp.op = "add_message"
    /\ resp.fail = "none"
    /\ resp.exc = "none"
    /\ Cardinality(DOMAIN chats) >= 2
    /\ chats[resp.arg.chat_id].description # NoneVal
    /\ Len(chats[resp.arg.chat_id].messages) >= 2
    /\ DOMAIN documents # {}

\* C27: every document a listing returns carries as its id the key of the
\* stored point it was built from: the id names a stored point whose text
\* is the listed content.
C27_ListedIdIsStoredKey ==
    LET listing == list_documents(documents)
    IN  \A i \in 1..Len(listing) :
            LET pid == point_id(listing[i].id, nextId)
            IN  /\ pid \in DOMAIN documents
                /\ "text" \in DOMAIN documents[pid]
                /\ documents[pid].text = listing[i].content

\* The index nodes that carry the document id in their metadata.
NodesOf(coll, id) ==
    {p \in DOMAIN coll :
        /\ "node" \in DOMAIN coll[p]
        /\ "id" \in DOMAIN coll[p].node.metadata
        /\ coll[p].node.metadata["id"] = id}

\* C28: after update_document succeeds, the index holds exactly one node
\* for the document id and no search returns a document with that id and a
\* content other than the new one.
C28_UpdateReplacesIndexEntry ==
    (resp.op = "update_document" /\ resp.exc = "none") =>
        /\ Cardinality(NodesOf(documents, resp.arg.doc_id)) = 1
        /\ \A hits \in UNION {TopKHits(documents, query) : query \in Queries} :
              LET r == search_similar_documents(documents, hits, "none")
              IN  \A i \in 1..Len(r.result) :
                      r.result[i].id = resp.arg.doc_id
                          => r.result[i].content = resp.arg.document.content

\* C22 as stated: each adapter handle of a ChatService is constructed at
\* most once, whatever chat and document operations are called.
C22_EachHandleBuiltOnce == \A h \in Handles : service.built[h] <= 1

\* The document operations that end with _refresh_index.
RefreshingOps == {"add_document", "delete_document", "update_document"}

\* C22, amended: the store client, the vector store, the embedding client
\* and the generation client are constructed at most once, and once set
\* the same handle is kept by every later operation; the index handle is
\* dropped only by add_document, delete_document or update_document, in a
\* call none of whose store, embedding and index calls raised (its
\* _refresh_index), and a new index is constructed only when none is set.
C22_HandlesReusedIndexRefreshed ==
    [][/\ \A h \in Handles \ {"index"} :
             /\ service'.built[h] <= 1
             /\ service.handle[h] # 0
                   => service'.handle[h] = service.handle[h]
       /\ (service.handle["index"] # 0
              /\ service'.handle["index"] # service.handle["index"])
             => /\ service'.handle["index"] = 0
                /\ service'.built["index"] = service.built["index"]
                /\ resp'.op \in RefreshingOps
                /\ resp'.fail = "none"
       /\ service'.built["index"] > service.built["index"]
             => /\ service.handle["index"] = 0
                /\ service'.built["index"] = service.built["index"] + 1]_vars

\* An index was constructed for the second time, after a document
\* operation dropped the first, while every other handle is still the one
\* constructed on first use.
C22_Witness ==
    /\ service.built["index"] = 2
    /\ service.handle["index"] = 2
    /\ \A h \in Handles \ {"index"} :
          service.built[h] = 1 /\ service.handle[h] = 1
    /\ resp.op = "search_similar_documents"
    /\ resp.exc = "none"

\* C29: whenever the service holds a store-client handle, both the
\* "documents" and the "chats" collections have been found or created.
C29_ClientImpliesCollections ==
    service.handle["qdrant_client"] # 0 => service.initialised = Collections

=============================================================================
